---- MODULE Spec2Model ----
(***************************************************************************)
(* A model of the Mandelbrot viewer: the complex arithmetic, the escape-   *)
(* time loop, the pixel-to-plane mapping, the threaded frame computation   *)
(* (construct_batch) and the event handlers that pan, zoom and reset the   *)
(* view.                                                                   *)
(*                                                                         *)
(* Number representation.  The program computes in binary floating point.  *)
(*   - view_offset components are integers counting 1/OffUnit of a pixel;  *)
(*     magnification is a positive integer (the program only produces      *)
(*     powers of two).  Every operation the handlers apply to them (add,   *)
(*     subtract, multiply or divide by a power of two) is exact in f64 for *)
(*     the magnitudes the model reaches, and OffUnit = MaxMag leaves room  *)
(*     for every halving a zoom-out can make (ExactArithmetic), so exact   *)
(*     integer arithmetic is what the code computes there.                 *)
(*   - complex-plane values are fixed point, integers counting 1/FixScale, *)
(*     products and quotients rounded down.                                *)
(*   - delta_time is an integer count of 1/TimeDen of a second.            *)
(***************************************************************************)
EXTENDS Integers, Sequences, FiniteSets, TLC

\* ------------------------------------------------------------ bounds
\* zoom-in is taken while magnification stays <= 2^MaxMagExp
MaxMagExp == 1
\* pan and zoom are taken while |view_offset| stays <= MaxPan half pixels
MaxPan == 2
\* the grids of the frame specification: 1..MaxWidth x 1..MaxHeight, 1..MaxThreads workers
MaxWidth == 4
MaxHeight == 2
MaxThreads == 3

\* ------------------------------------------------------------ program constants
\* main.rs:26, main.rs:27
MAX_ITERATIONS == 100
MAX_STABLE == 2
\* main.rs:29, main.rs:20, main.rs:21: the window and the number of workers of
\* the viewer, scaled down to a grid TLC can enumerate.  WIDTH stays a multiple
\* of THREADS, as 500 is of 10, and WIDTH and HEIGHT stay even and equal.
THREADS == 2
WIDTH == 2
HEIGHT == 2

\* resolution of the fixed-point stand-in for the float type of Complex
FixScale == 1024
\* resolution of delta_time: 1/TimeDen s
TimeDen == 10

RECURSIVE Pow2(_)
Pow2(n) == IF n = 0 THEN 1 ELSE 2 * Pow2(n - 1)
MaxMag == Pow2(MaxMagExp)
\* view_offset counts 1/OffUnit of a pixel
OffUnit == MaxMag

Abs(n) == IF n < 0 THEN -n ELSE n

\* ------------------------------------------------------------ complex.rs
\* a * b of two fixed-point numbers
FMul(a, b) == (a * b) \div FixScale

ComplexNew(real, imaginary) == [real |-> real, imaginary |-> imaginary]

\* Complex::abs: real^2 + imaginary^2, made non-negative; no square root is taken
ComplexAbs(z) == Abs(FMul(z.real, z.real) + FMul(z.imaginary, z.imaginary))

ComplexAdd(a, b) == ComplexNew(a.real + b.real, a.imaginary + b.imaginary)

ComplexMul(a, b) ==
    ComplexNew(FMul(a.real, b.real) - FMul(a.imaginary, b.imaginary),
               FMul(a.real, b.imaginary) + FMul(a.imaginary, b.real))

\* ------------------------------------------------------------ main.rs, pure functions
blank_point == [x |-> 0, y |-> 0]

\* into_range: ((value / constant) / magnification) * 4 - 2.  value is in offset
\* units, constant in pixels; the result is fixed point.
into_range(value, constant, magnification) ==
    ((4 * value * FixScale) \div (OffUnit * constant * magnification)) - 2 * FixScale

\* mapper adding the offset, scaled as a plane length, after the division
mapperOffsetLast(position, offset_component, extent, magnification) ==
    into_range(position, extent, magnification) + (offset_component * FixScale) \div OffUnit

\* the plane coordinate of a screen position on one axis, as calculate_for_pixel
\* computes it: into_range(position + view_offset, extent, magnification); the
\* position is in offset units
mapper(position, offset_component, extent, magnification) ==
    into_range(position + offset_component, extent, magnification)

\* the seed of the orbit, Complex::new(0.01, 0.01)
SeedDen == 100
Seed == ComplexNew(FixScale \div SeedDen, FixScale \div SeedDen)

\* the loop condition of calculate_for_pixel: z.abs() < MAX_STABLE
Stable(z) == ComplexAbs(z) < MAX_STABLE * FixScale

\* CapReached testing one iteration too late
CapReachedLate(iterations) == iterations > MAX_ITERATIONS + 1

\* the test that ends the loop with the black colour: iterations > MAX_ITERATIONS
CapReached(iterations) == iterations > MAX_ITERATIONS

\* the loop body after the test: z = (z * z) + c
Step(z, c) == ComplexAdd(ComplexMul(z, z), c)

BLACK == [black |-> TRUE, iterations |-> 0]
\* the colour of an escaped point: hue alpha * 360 with alpha = iterations / MAX_ITERATIONS;
\* kept as the iteration count, the numerator of alpha
Escaped(iterations) == [black |-> FALSE, iterations |-> iterations]

\* the locals of calculate_for_pixel while its loop runs; returned is set, with the
\* colour, once the function has returned
LoopState(z, iterations) ==
    [z |-> z, iterations |-> iterations, returned |-> FALSE, color |-> BLACK]

\* the function returns with a colour
Returned(s, color) == [s EXCEPT !.returned = TRUE, !.color = color]

\* one pass of the while loop: the test z.abs() < MAX_STABLE, then either the
\* early return, or the body, or the fall through to the colour of an escape
LoopPass(s, c) ==
    IF s.returned THEN s
    ELSE IF Stable(s.z)
         THEN IF CapReached(s.iterations)
              THEN Returned(s, BLACK)
              ELSE [s EXCEPT !.iterations = s.iterations + 1, !.z = Step(s.z, c)]
         ELSE Returned(s, Escaped(s.iterations))

\* n passes of the loop, halving n
RECURSIVE LoopPasses(_, _, _)
LoopPasses(s, c, n) ==
    IF n = 0 \/ s.returned THEN s
    ELSE IF n = 1 THEN LoopPass(s, c)
    ELSE LoopPasses(LoopPasses(s, c, n \div 2), c, n - (n \div 2))

\* the loop run until the function returns
RECURSIVE EscapeLoop(_, _)
EscapeLoop(s, c) ==
    IF s.returned THEN s.color
    ELSE EscapeLoop(LoopPasses(s, c, MAX_ITERATIONS), c)

calculate_for_pixel(x, y, offset, mag, w, h) ==
    LET c == ComplexNew(mapper(x * OffUnit, offset.x, w, mag),
                        mapper(y * OffUnit, offset.y, h, mag))
    IN  EscapeLoop(LoopState(Seed, 0), c)

DrawParam(x, y, color) == [x |-> x, y |-> y, color |-> color]

\* the rows of one column, y = 0 .. h-1
RECURSIVE ColumnFrom(_, _, _, _, _, _)
ColumnFrom(x, y, offset, mag, w, h) ==
    IF y >= h THEN <<>>
    ELSE <<DrawParam(x, y, calculate_for_pixel(x, y, offset, mag, w, h))>>
         \o ColumnFrom(x, y + 1, offset, mag, w, h)

\* calculate_for_range: for x in x_start..x_end, for y in 0..HEIGHT
RECURSIVE calculate_for_range(_, _, _, _, _, _)
calculate_for_range(x_start, x_end, offset, mag, w, h) ==
    IF x_start >= x_end THEN <<>>
    ELSE ColumnFrom(x_start, 0, offset, mag, w, h)
         \o calculate_for_range(x_start + 1, x_end, offset, mag, w, h)

\* ------------------------------------------------------------ state
VARIABLES
    \* MandelbrotViewer (main.rs:120-128)
    batch,                   \* the instances handed to the canvas by draw
    movement_data,           \* key -> is_down (the velocities are constant)
    has_parameters_changed,
    view_offset,
    magnification,
    \* the window and the number of workers (WIDTH, HEIGHT, THREADS)
    width, height, thread_count,
    \* where the main thread is: "events", "update" (the tick loop), "spawn",
    \* "join", "draw", or "panicked" (the process has ended)
    pc,
    \* the handler branch the main thread ran last since update was entered
    \* ("none" outside the handlers)
    last_event,
    \* construct_batch: the spawned threads, the locals of the two loops
    threads, accumulated_x, results, join_index,
    \* one call of calculate_for_pixel, a pass of its loop at a time: where the
    \* call is ("idle", "loop", "returned"), the constant c, the locals, and the
    \* number of times the loop body has run
    ev_pc, ev_c, ev_loop, ev_steps

viewer_vars == <<batch, movement_data, has_parameters_changed, view_offset, magnification>>
config_vars == <<width, height, thread_count>>
batch_vars == <<threads, accumulated_x, results, join_index>>
ev_vars == <<ev_pc, ev_c, ev_loop, ev_steps>>
vars == <<viewer_vars, config_vars, pc, last_event, batch_vars, ev_vars>>

\* ------------------------------------------------------------ inputs
MovementKeys == {"W", "A", "S", "D"}
\* the key codes an event can carry; "X" is any other key, "None" no key code
Keycodes == MovementKeys \cup {"R", "E", "Q", "X", "None"}

\* MovementKeyData::velocity, pixels per second (main.rs:139-142)
KeySpeed == 10
velocity(key) ==
    CASE key = "W" -> [x |-> 0, y |-> -KeySpeed]
      [] key = "A" -> [x |-> -KeySpeed, y |-> 0]
      [] key = "S" -> [x |-> 0, y |-> KeySpeed]
      [] key = "D" -> [x |-> KeySpeed, y |-> 0]

\* delta_time, in 1/TimeDen s
DeltaTimes == {1, 2}

\* the cursor positions tried, in offset units: the corners of the window, its
\* centre, and a pixel off the centre on both axes
MousePositions ==
    {[x |-> 0, y |-> 0],
     [x |-> (width * OffUnit) \div 2, y |-> (height * OffUnit) \div 2],
     [x |-> ((width * OffUnit) \div 2) + OffUnit, y |-> 0],
     [x |-> width * OffUnit, y |-> height * OffUnit]}

\* the model keeps the views with |view_offset| <= MaxPan half pixels and
\* magnification <= MaxMag
InBounds(offset, mag) ==
    /\ 2 * Abs(offset.x) <= MaxPan * OffUnit
    /\ 2 * Abs(offset.y) <= MaxPan * OffUnit
    /\ mag <= MaxMag


\* ------------------------------------------------------------ construction
\* the state of the evaluator when no loop is being stepped
EvalIdle ==
    /\ ev_pc = "idle"
    /\ ev_c = ComplexNew(0, 0)
    /\ ev_loop = LoopState(Seed, 0)
    /\ ev_steps = 0

\* the locals of construct_batch outside a call
NoBatchLocals == <<>>

\* a viewer whose frame is still to be computed, looking at (offset, mag)
ViewerAt(offset, mag) ==
    /\ batch = <<>>
    /\ movement_data = [k \in MovementKeys |-> FALSE]
    /\ has_parameters_changed = TRUE
    /\ view_offset = offset
    /\ magnification = mag
    /\ threads = NoBatchLocals
    /\ accumulated_x = 0
    /\ results = NoBatchLocals
    /\ join_index = 0

\* MandelbrotViewer::new
ViewerNew == ViewerAt(blank_point, 1)

Init ==
    /\ ViewerNew
    /\ width = WIDTH
    /\ height = HEIGHT
    /\ thread_count = THREADS
    /\ pc = "events"
    /\ last_event = "none"
    /\ EvalIdle

\* ------------------------------------------------------------ key_down_event
\* Reset leaving the magnification as it is
ResetOffsetOnly ==
    /\ view_offset' = blank_point
    /\ magnification' = magnification
    /\ has_parameters_changed' = TRUE

\* VirtualKeyCode::R
Reset ==
    /\ view_offset' = blank_point
    /\ magnification' = 1
    /\ has_parameters_changed' = TRUE

\* Pivot without the rescaling by the magnifications
PivotUnscaled(offset_component, mouse_component, old_mag, new_mag) ==
    offset_component + mouse_component

\* pivot = (offset + mouse_pos) / old_mag * new_mag
Pivot(offset_component, mouse_component, old_mag, new_mag) ==
    ((offset_component + mouse_component) * new_mag) \div old_mag

\* Recentred keeping the pivot under the cursor: pivot - mouse_pos per axis
RecentredOnCursor(offset, mouse_pos, old_mag, new_mag, w, h) ==
    [x |-> Pivot(offset.x, mouse_pos.x, old_mag, new_mag) - mouse_pos.x,
     y |-> Pivot(offset.y, mouse_pos.y, old_mag, new_mag) - mouse_pos.y]

\* the offset a zoom from old_mag to new_mag leaves: pivot - extent / 2 per axis
Recentred(offset, mouse_pos, old_mag, new_mag, w, h) ==
    [x |-> Pivot(offset.x, mouse_pos.x, old_mag, new_mag) - (w * OffUnit) \div 2,
     y |-> Pivot(offset.y, mouse_pos.y, old_mag, new_mag) - (h * OffUnit) \div 2]

\* 2.0 * old_mag
ZoomInMag(old_mag) == 2 * old_mag

\* ZoomOutMag without the floor: 0.5 * old_mag, rounded down
ZoomOutMagNoFloor(old_mag) == old_mag \div 2

\* (0.5 * old_mag).max(1.0); 0.5 * old_mag >= 1 exactly when old_mag >= 2
ZoomOutMag(old_mag) == IF old_mag >= 2 THEN old_mag \div 2 ELSE 1

\* ZoomTo forgetting has_parameters_changed = true
ZoomToUnmarked(mouse_pos, new_mag) ==
    /\ magnification' = new_mag
    /\ view_offset' = Recentred(view_offset, mouse_pos, magnification, new_mag, width, height)
    /\ has_parameters_changed' = has_parameters_changed

\* the body shared by VirtualKeyCode::E and VirtualKeyCode::Q
ZoomTo(mouse_pos, new_mag) ==
    /\ magnification' = new_mag
    /\ view_offset' = Recentred(view_offset, mouse_pos, magnification, new_mag, width, height)
    /\ has_parameters_changed' = TRUE

\* VirtualKeyCode::E
ZoomIn(mouse_pos) == ZoomTo(mouse_pos, ZoomInMag(magnification))

\* ZoomOut leaving the offset alone when the floor keeps the magnification
ZoomOutStillAtFloor(mouse_pos) ==
    IF ZoomOutMag(magnification) = magnification
    THEN /\ UNCHANGED <<view_offset, magnification>>
         /\ has_parameters_changed' = TRUE
    ELSE ZoomTo(mouse_pos, ZoomOutMag(magnification))

\* VirtualKeyCode::Q
ZoomOut(mouse_pos) == ZoomTo(mouse_pos, ZoomOutMag(magnification))

\* the movement key branch: key_data.is_down = true
KeyPressed(keycode) ==
    /\ movement_data' = [movement_data EXCEPT ![keycode] = TRUE]
    /\ UNCHANGED <<view_offset, magnification, has_parameters_changed>>

\* key_down_event without the early return on repeated
key_down_event_repeating(keycode, repeated, mouse_pos) ==
    /\ pc = "events"
    /\ IF keycode = "None"
       THEN /\ UNCHANGED <<movement_data, view_offset, magnification, has_parameters_changed>>
            /\ last_event' = "Ignored"
       ELSE IF keycode \in MovementKeys
       THEN /\ KeyPressed(keycode)
            /\ last_event' = "KeyDown"
       ELSE /\ UNCHANGED movement_data
            /\ CASE keycode = "R" -> Reset /\ last_event' = "Reset"
                 [] keycode = "E" -> ZoomIn(mouse_pos) /\ last_event' = "ZoomIn"
                 [] keycode = "Q" -> ZoomOut(mouse_pos) /\ last_event' = "ZoomOut"
                 [] OTHER -> /\ UNCHANGED <<view_offset, magnification, has_parameters_changed>>
                             /\ last_event' = "Ignored"
    /\ InBounds(view_offset', magnification')
    /\ UNCHANGED <<batch, config_vars, pc, batch_vars, ev_vars>>

key_down_event(keycode, repeated, mouse_pos) ==
    /\ pc = "events"
    /\ IF repeated
       THEN /\ UNCHANGED <<movement_data, view_offset, magnification, has_parameters_changed>>
            /\ last_event' = "Repeated"
       ELSE IF keycode = "None"
       THEN /\ UNCHANGED <<movement_data, view_offset, magnification, has_parameters_changed>>
            /\ last_event' = "Ignored"
       ELSE IF keycode \in MovementKeys
       THEN /\ KeyPressed(keycode)
            /\ last_event' = "KeyDown"
       ELSE /\ UNCHANGED movement_data
            /\ CASE keycode = "R" -> Reset /\ last_event' = "Reset"
                 [] keycode = "E" -> ZoomIn(mouse_pos) /\ last_event' = "ZoomIn"
                 [] keycode = "Q" -> ZoomOut(mouse_pos) /\ last_event' = "ZoomOut"
                 [] OTHER -> /\ UNCHANGED <<view_offset, magnification, has_parameters_changed>>
                             /\ last_event' = "Ignored"
    /\ InBounds(view_offset', magnification')
    /\ UNCHANGED <<batch, config_vars, pc, batch_vars, ev_vars>>

\* ------------------------------------------------------------ key_up_event
KeyReleased(keycode) ==
    movement_data' = [movement_data EXCEPT ![keycode] = FALSE]

key_up_event(keycode) ==
    /\ pc = "events"
    /\ IF keycode \in MovementKeys
       THEN KeyReleased(keycode) /\ last_event' = "KeyUp"
       ELSE UNCHANGED movement_data /\ last_event' = "Ignored"
    /\ UNCHANGED <<batch, view_offset, magnification, has_parameters_changed,
                   config_vars, pc, batch_vars, ev_vars>>

\* ------------------------------------------------------------ update
\* the event loop calls update once the pending events are handled
UpdateBegin ==
    /\ pc = "events"
    /\ pc' = "update"
    /\ last_event' = "none"
    /\ UNCHANGED <<viewer_vars, config_vars, batch_vars, ev_vars>>

\* velocity * delta_time, in offset units
Displacement(v, delta_time) == (v * delta_time * OffUnit) \div TimeDen

\* Panned stopping after the first held key it visits
PannedOneKey(offset, keys, is_down, delta_time) ==
    IF \A k \in keys : ~is_down[k] THEN offset
    ELSE LET key == CHOOSE k \in keys : is_down[k]
         IN  [x |-> offset.x + Displacement(velocity(key).x, delta_time),
              y |-> offset.y + Displacement(velocity(key).y, delta_time)]

\* the for loop over movement_data: the sum of the held keys' displacements.
\* The additions are exact, so the map's iteration order does not show.
RECURSIVE Panned(_, _, _, _)
Panned(offset, keys, is_down, delta_time) ==
    IF keys = {} THEN offset
    ELSE LET key == CHOOSE k \in keys : TRUE
             moved == IF is_down[key]
                      THEN [x |-> offset.x + Displacement(velocity(key).x, delta_time),
                            y |-> offset.y + Displacement(velocity(key).y, delta_time)]
                      ELSE offset
         IN  Panned(moved, keys \ {key}, is_down, delta_time)

\* TickChanged forgetting the assignment in the loop
TickChangedNever(changed, is_down) == changed

\* has_parameters_changed after the for loop
TickChanged(changed, is_down) == changed \/ \E k \in MovementKeys : is_down[k]

\* one iteration of while context.time.check_update_time(FPS); delta() is read
\* again on each iteration
Tick(delta_time) ==
    /\ pc = "update"
    /\ view_offset' = Panned(view_offset, MovementKeys, movement_data, delta_time)
    /\ has_parameters_changed' = TickChanged(has_parameters_changed, movement_data)
    /\ InBounds(view_offset', magnification)
    /\ last_event' = "Tick"
    /\ UNCHANGED <<batch, movement_data, magnification, config_vars, pc, batch_vars, ev_vars>>

\* the loop is left: if self.has_parameters_changed, construct_batch is entered
UpdateRender ==
    /\ pc = "update"
    /\ IF has_parameters_changed
       THEN /\ pc' = "spawn"
            /\ accumulated_x' = 0
            /\ threads' = <<>>
            /\ results' = <<>>
            /\ join_index' = 0
       ELSE /\ pc' = "draw"
            /\ UNCHANGED batch_vars
    /\ last_event' = "none"
    /\ UNCHANGED <<viewer_vars, config_vars, ev_vars>>

\* ------------------------------------------------------------ construct_batch
\* (WIDTH as usize) / THREADS
per_thread_x == width \div thread_count

\* Spawned handing the worker the startup view instead of the current one
SpawnedAtStartupView(acc) ==
    [state |-> "running", x_start |-> acc, x_end |-> acc + per_thread_x,
     offset |-> blank_point, mag |-> 1, result |-> <<>>]

\* what the closure of thread::spawn captures
Spawned(acc) ==
    [state |-> "running", x_start |-> acc, x_end |-> acc + per_thread_x,
     offset |-> view_offset, mag |-> magnification, result |-> <<>>]

\* one iteration of for _ in 0..THREADS
SpawnThread ==
    /\ pc = "spawn"
    /\ Len(threads) < thread_count
    /\ threads' = Append(threads, Spawned(accumulated_x))
    /\ accumulated_x' = accumulated_x + per_thread_x
    /\ IF Len(threads') = thread_count
       THEN pc' = "join" /\ join_index' = 1
       ELSE UNCHANGED <<pc, join_index>>
    /\ UNCHANGED <<viewer_vars, config_vars, last_event, results, ev_vars>>

\* WorkerResult computed for the startup view whatever the thread captured
WorkerResultAtOrigin(t) == calculate_for_range(t.x_start, t.x_end, blank_point, 1, width, height)

\* the value a thread's closure returns
WorkerResult(t) == calculate_for_range(t.x_start, t.x_end, t.offset, t.mag, width, height)

\* thread i runs its closure to the end
WorkerFinish(i) ==
    /\ pc \in {"spawn", "join"}
    /\ i \in 1..Len(threads)
    /\ threads[i].state = "running"
    /\ threads' = [threads EXCEPT ![i].state = "finished", ![i].result = WorkerResult(threads[i])]
    /\ UNCHANGED <<viewer_vars, config_vars, pc, last_event, accumulated_x, results, join_index, ev_vars>>

\* thread i panics
WorkerPanic(i) ==
    /\ pc \in {"spawn", "join"}
    /\ i \in 1..Len(threads)
    /\ threads[i].state = "running"
    /\ threads' = [threads EXCEPT ![i].state = "panicked"]
    /\ UNCHANGED <<viewer_vars, config_vars, pc, last_event, accumulated_x, results, join_index, ev_vars>>

\* JoinThread taking the threads as they finish instead of in spawn order
JoinThreadByArrival ==
    /\ pc = "join"
    /\ join_index <= thread_count
    /\ \E i \in 1..Len(threads) :
          /\ threads[i].state = "finished"
          /\ results' = results \o threads[i].result
          /\ threads' = [threads EXCEPT ![i].state = "joined"]
    /\ join_index' = join_index + 1
    /\ UNCHANGED <<viewer_vars, config_vars, pc, last_event, accumulated_x, ev_vars>>

\* JoinThread skipping a panicked thread instead of panicking
JoinThreadSkipsPanic ==
    /\ pc = "join"
    /\ join_index <= thread_count
    /\ threads[join_index].state # "running"
    /\ results' = IF threads[join_index].state = "finished"
                  THEN results \o threads[join_index].result
                  ELSE results
    /\ join_index' = join_index + 1
    /\ UNCHANGED <<viewer_vars, config_vars, pc, last_event, threads, accumulated_x, ev_vars>>

\* one iteration of for t in threads: t.join().expect("thread panicked"), then
\* the pushes of its params
JoinThread ==
    /\ pc = "join"
    /\ join_index <= thread_count
    /\ threads[join_index].state # "running"
    /\ IF threads[join_index].state = "finished"
       THEN /\ results' = results \o threads[join_index].result
            /\ join_index' = join_index + 1
            /\ pc' = pc
            /\ UNCHANGED <<threads, accumulated_x>>
       ELSE \* the panic unwinds construct_batch and ends the process
            /\ pc' = "panicked"
            /\ threads' = NoBatchLocals
            /\ results' = NoBatchLocals
            /\ accumulated_x' = 0
            /\ join_index' = 0
    /\ UNCHANGED <<viewer_vars, config_vars, last_event, ev_vars>>

\* FinishBatch leaving the join loop one thread early
FinishBatchEarly ==
    /\ pc = "join"
    /\ join_index >= thread_count
    /\ batch' = results
    /\ has_parameters_changed' = FALSE
    /\ pc' = "draw"
    /\ threads' = NoBatchLocals
    /\ results' = NoBatchLocals
    /\ accumulated_x' = 0
    /\ join_index' = 0
    /\ UNCHANGED <<movement_data, view_offset, magnification, config_vars, last_event, ev_vars>>

\* self.batch.set(results), then back in update has_parameters_changed = false
FinishBatch ==
    /\ pc = "join"
    /\ join_index > thread_count
    /\ batch' = results
    /\ has_parameters_changed' = FALSE
    /\ pc' = "draw"
    /\ threads' = NoBatchLocals
    /\ results' = NoBatchLocals
    /\ accumulated_x' = 0
    /\ join_index' = 0
    /\ UNCHANGED <<movement_data, view_offset, magnification, config_vars, last_event, ev_vars>>

\* ------------------------------------------------------------ draw
\* canvas.draw(&self.batch); the event loop then takes events again
Draw ==
    /\ pc = "draw"
    /\ pc' = "events"
    /\ UNCHANGED <<viewer_vars, config_vars, last_event, batch_vars, ev_vars>>

\* ------------------------------------------------------------ the viewer
\* the cursor is read by the zoom branches only: elsewhere one position stands for all
KeyDownInputs ==
    {<<k, r, m>> \in Keycodes \X BOOLEAN \X MousePositions :
        (k \in {"E", "Q"} /\ ~r) \/ m = blank_point}
KeyDownStep == \E i \in KeyDownInputs : key_down_event(i[1], i[2], i[3])
KeyUpStep == \E k \in Keycodes : key_up_event(k)
TickStep == \E d \in DeltaTimes : Tick(d)
WorkerFinishStep == \E i \in 1..thread_count : WorkerFinish(i)
WorkerPanicStep == \E i \in 1..thread_count : WorkerPanic(i)

Next ==
    \/ KeyDownStep
    \/ KeyUpStep
    \/ UpdateBegin
    \/ TickStep
    \/ UpdateRender
    \/ SpawnThread
    \/ WorkerFinishStep
    \/ WorkerPanicStep
    \/ JoinThread
    \/ FinishBatch
    \/ Draw

Spec == Init /\ [][Next]_vars

\* ------------------------------------------------------------ the frame computation alone
\* the views the frame specification starts from: the startup view and a
\* panned, magnified one
FrameViews ==
    {[offset |-> blank_point, mag |-> 1],
     [offset |-> [x |-> OffUnit, y |-> -OffUnit], mag |-> 2]}

\* a viewer of any window size and worker count whose first update is due
InitFrame ==
    /\ \E v \in FrameViews : ViewerAt(v.offset, v.mag)
    /\ width \in 1..MaxWidth
    /\ height \in 1..MaxHeight
    /\ thread_count \in 1..MaxThreads
    /\ pc = "events"
    /\ last_event = "none"
    /\ EvalIdle

NextFrame ==
    \/ UpdateBegin
    \/ UpdateRender
    \/ SpawnThread
    \/ WorkerFinishStep
    \/ WorkerPanicStep
    \/ JoinThread
    \/ FinishBatch
    \/ Draw

SpecFrame == InitFrame /\ [][NextFrame]_vars

\* ------------------------------------------------------------ the evaluator alone
\* the constants tried: points that escape at once, late, at the very last pass
\* the cap allows (-1421/1024 - 11/1024 i), and never
EvalReals == {-2 * FixScale, -1421, -FixScale, 0, 300, FixScale}
EvalImags == {-11, 0, FixScale}
EvalInputs == {ComplexNew(r, i) : r \in EvalReals, i \in EvalImags}

\* calculate_for_pixel is entered with the constant c
EvalCall(c) ==
    /\ ev_pc = "idle"
    /\ ev_pc' = "loop"
    /\ ev_c' = c
    /\ ev_loop' = LoopState(Seed, 0)
    /\ ev_steps' = 0
    /\ UNCHANGED <<viewer_vars, config_vars, pc, last_event, batch_vars>>

\* one pass of the while loop
EvalPass ==
    /\ ev_pc = "loop"
    /\ ev_loop' = LoopPass(ev_loop, ev_c)
    /\ ev_steps' = IF ev_loop'.returned THEN ev_steps ELSE ev_steps + 1
    /\ ev_pc' = IF ev_loop'.returned THEN "returned" ELSE "loop"
    /\ UNCHANGED <<viewer_vars, config_vars, pc, last_event, batch_vars, ev_c>>

EvalCallStep == \E c \in EvalInputs : EvalCall(c)

NextEval == EvalCallStep \/ EvalPass

SpecEval == Init /\ [][NextEval]_vars

\* ------------------------------------------------------------ a reset, then the next frame
\* the viewer before its first update, after a zoom-in at any of the cursor
\* positions: the magnification is 2 and only VirtualKeyCode::R brings it to 1
InitReset ==
    /\ width = WIDTH
    /\ height = HEIGHT
    /\ thread_count = THREADS
    /\ \E m \in MousePositions :
          ViewerAt(Recentred(blank_point, m, 1, ZoomInMag(1), WIDTH, HEIGHT), ZoomInMag(1))
    /\ pc = "events"
    /\ last_event = "none"
    /\ EvalIdle

MovementKeyDownStep == \E k \in MovementKeys : key_down_event(k, FALSE, blank_point)
ResetStep == key_down_event("R", FALSE, blank_point)

\* the key events before one update, and that update up to its draw
NextReset ==
    \/ MovementKeyDownStep
    \/ KeyUpStep
    \/ ResetStep
    \/ UpdateBegin
    \/ TickStep
    \/ UpdateRender
    \/ SpawnThread
    \/ WorkerFinishStep
    \/ WorkerPanicStep
    \/ JoinThread
    \/ FinishBatch

SpecReset == InitReset /\ [][NextReset]_vars

\* ------------------------------------------------------------ the key events and the renders
\* the viewer with no time elapsing in update and no worker fault: the view
\* changes by zooms and resets only
NextKeys ==
    \/ KeyDownStep
    \/ KeyUpStep
    \/ UpdateBegin
    \/ UpdateRender
    \/ SpawnThread
    \/ WorkerFinishStep
    \/ JoinThread
    \/ FinishBatch
    \/ Draw

SpecKeys == Init /\ [][NextKeys]_vars

\* ------------------------------------------------------------ the mapper alone
\* the views the mapper is tried in: those of the frame specification and an
\* unmagnified one off the origin by half pixels
MapViews ==
    FrameViews \cup {[offset |-> [x |-> -(OffUnit \div 2), y |-> 3 * (OffUnit \div 2)], mag |-> 1]}

InitMap ==
    /\ \E v \in MapViews : ViewerAt(v.offset, v.mag)
    /\ width \in 1..MaxWidth
    /\ height \in 1..MaxHeight
    /\ thread_count = 1
    /\ pc = "events"
    /\ last_event = "none"
    /\ EvalIdle

\* the head of calculate_for_pixel: the position (x, y) is translated by the
\* offset and mapped to the constant c, and the loop is entered.  x and y run
\* over the pixels and the far edge of the window.
MapPosition(x, y) ==
    /\ ev_pc = "idle"
    /\ ev_pc' = "loop"
    /\ ev_c' = ComplexNew(mapper(x * OffUnit, view_offset.x, width, magnification),
                          mapper(y * OffUnit, view_offset.y, height, magnification))
    /\ ev_loop' = LoopState(Seed, 0)
    /\ ev_steps' = 0
    /\ UNCHANGED <<viewer_vars, config_vars, pc, last_event, batch_vars>>

MapPositionStep == \E x \in 0..width, y \in 0..height : MapPosition(x, y)

NextMap == MapPositionStep \/ EvalPass

SpecMap == InitMap /\ [][NextMap]_vars

\* ------------------------------------------------------------ properties
\* v / old_mag * new_mag is a whole number of offset units
Representable(v, old_mag, new_mag) == (v * new_mag) % old_mag = 0

\* no zoom the viewer can take next rounds: the integer arithmetic of Pivot is
\* the exact arithmetic of the code
ExactArithmetic ==
    \A m \in MousePositions :
        /\ Representable(view_offset.x + m.x, magnification, ZoomOutMag(magnification))
        /\ Representable(view_offset.y + m.y, magnification, ZoomOutMag(magnification))

\* the centre of the window, in offset units
Centre == [x |-> (width * OffUnit) \div 2, y |-> (height * OffUnit) \div 2]

\* the pixel the k-th entry of a column-by-column, row-by-row traversal holds
TraversalEntry(k) ==
    LET x == (k - 1) \div height
        y == (k - 1) % height
    IN  DrawParam(x, y, calculate_for_pixel(x, y, view_offset, magnification, width, height))

\* s is the traversal of the columns 0 .. cols-1
IsTraversal(s, cols) ==
    /\ Len(s) = cols * height
    /\ \A k \in 1..Len(s) : s[k] = TraversalEntry(k)

\* the results of the threads, in spawn order
RECURSIVE AllResults(_)
AllResults(ts) ==
    IF ts = <<>> THEN <<>> ELSE Head(ts).result \o AllResults(Tail(ts))

\* a step of the handlers that leaves the main thread where it is and ends with
\* the branch named
Handled(at, names) == pc = at /\ pc' = at /\ last_event' \in names

\* C1: the magnification is at least 1.0 in every state the viewer reaches by
\* ticks, key presses and releases, zooms and resets.
C1_MagnificationAtLeastOne == magnification >= 1

\* a zoom-out was taken at magnification 1.0 and left it at 1.0
C1_Witness == last_event = "ZoomOut" /\ magnification = 1 /\ batch # <<>>

C3_OrderByChunkIndex ==
    /\ pc = "join" => IsTraversal(results, (join_index - 1) * per_thread_x)
    /\ pc = "draw" => IsTraversal(batch, thread_count * per_thread_x)

\* the last of three workers has finished, the second is still running, and
\* the first chunk is joined
C3_Witness ==
    /\ pc = "join"
    /\ thread_count = 3
    /\ join_index = 2
    /\ threads[2].state = "running"
    /\ threads[3].state = "finished"
    /\ results # <<>>

\* the step sets the batch to the results of all the workers, all joined
PublishesWholeFrame ==
    /\ pc = "join"
    /\ join_index > thread_count
    /\ \A i \in 1..thread_count : threads[i].state = "finished"
    /\ batch' = AllResults(threads)

\* C4: the batch changes only when every worker of the frame has been joined,
\* and then to the results of all of them; at every moment it is the empty
\* batch of startup or a whole frame.
C4_NoPartialFrame ==
    /\ [][batch' # batch => PublishesWholeFrame]_vars
    /\ [](batch = <<>> \/ Len(batch) = thread_count * per_thread_x * height)

\* a frame is on display while part of the next one has been joined
C4_Witness ==
    /\ pc = "join"
    /\ join_index = 2
    /\ results # <<>>
    /\ batch # <<>>
    /\ threads[2].state = "running"

\* C5 as claimed: a worker fault never ends the program.
C5_KeepsRunning == pc # "panicked"

\* the step is the join of a panicked worker and leaves the viewer's fields alone
ViewerUntouched == viewer_vars' = viewer_vars
PanicsAtJoin ==
    /\ pc = "join"
    /\ threads[join_index].state = "panicked"
    /\ ViewerUntouched
NoWorkerFaulted == \A i \in 1..thread_count : threads[i].state = "finished"

\* C5 as amended: a worker fault ends the program at the join of that worker,
\* with the batch, the offset, the magnification and the key flags as they were
\* when the frame computation began; no step follows, and no frame is published
\* from a computation in which a worker faulted.
C5_FaultEndsProgram ==
    /\ [][pc' = "panicked" => PanicsAtJoin]_vars
    /\ [][(pc \in {"spawn", "join"} /\ pc' # "draw") => ViewerUntouched]_vars
    /\ [][(pc = "join" /\ pc' = "draw") => NoWorkerFaulted]_vars
    /\ [][pc # "panicked"]_vars

\* the program has ended on a worker fault with a frame on display
C5_Witness == pc = "panicked" /\ batch # <<>> /\ has_parameters_changed

\* the plane coordinate under the screen position m is the same on the x axis /
\* the y axis in the view before and the view after the step
SameX(m) ==
    mapper(m.x, view_offset.x, width, magnification)
        = mapper(m.x, view_offset'.x, width, magnification')
SameY(m) ==
    mapper(m.y, view_offset.y, height, magnification)
        = mapper(m.y, view_offset'.y, height, magnification')

\* C6 as claimed: a zoom-in leaves the plane coordinate under the cursor as it
\* was, on both axes, wherever the cursor is.
C6_PivotPreserved ==
    [][\A m \in MousePositions :
          key_down_event("E", FALSE, m) => (SameX(m) /\ SameY(m))]_vars

SameExactlyAtCentre(m) ==
    /\ SameX(m) <=> (m.x = Centre.x)
    /\ SameY(m) <=> (m.y = Centre.y)

\* C6 as amended: a zoom-in leaves the plane coordinate under the cursor as it
\* was on an axis exactly when the cursor is at the centre of the window on
\* that axis.
C6_PivotPreservedAtCentre ==
    [][\A m \in MousePositions :
          key_down_event("E", FALSE, m) => SameExactlyAtCentre(m)]_vars

\* a zoom-in with the cursor at the centre of the startup view has been taken
C6_Witness ==
    /\ last_event = "ZoomIn"
    /\ magnification = 2
    /\ view_offset = Recentred(blank_point, Centre, 1, 2, width, height)

\* C7 as claimed: every tick, key press, key release, zoom and reset leaves the
\* frame marked dirty.
C7_EveryTransitionDirties ==
    [][(\/ Handled("events", {"KeyDown", "KeyUp", "ZoomIn", "ZoomOut", "Reset"})
        \/ Handled("update", {"Tick"}))
       => has_parameters_changed']_vars

\* the step sets the dirty mark if a movement key is held and else leaves it
DirtyIffKeyHeld ==
    has_parameters_changed' =
        (has_parameters_changed \/ \E k \in MovementKeys : movement_data[k])

\* C7 as amended: a zoom, a reset, and a tick during which a movement key is
\* held leave the frame marked dirty; a key press, a key release and a tick with
\* no movement key held leave the mark as it was; and no draw finds it set.
C7_DirtyOnViewChange ==
    /\ [][Handled("events", {"ZoomIn", "ZoomOut", "Reset"})
            => has_parameters_changed']_vars
    /\ [][Handled("update", {"Tick"}) => DirtyIffKeyHeld]_vars
    /\ [][Handled("events", {"KeyDown", "KeyUp"})
            => (has_parameters_changed' = has_parameters_changed)]_vars
    /\ [](pc = "draw" => ~has_parameters_changed)

\* a tick with a key held has marked a frame dirty that was on display
C7_Witness ==
    /\ last_event = "Tick"
    /\ has_parameters_changed
    /\ batch # <<>>
    /\ view_offset # blank_point

\* the step leaves the startup view and the key flags as they were
ResetEffect ==
    /\ view_offset' = blank_point
    /\ magnification' = 1
    /\ movement_data' = movement_data

\* C8: a reset leaves the offset (0,0) and the magnification 1.0 and every
\* is_down flag as it was, from any view and whichever keys are held.
C8_Reset == [][Handled("events", {"Reset"}) => ResetEffect]_vars

\* a reset was taken with a key held, after a frame of another view
C8_Witness ==
    /\ last_event = "Reset"
    /\ movement_data["D"]
    /\ view_offset = blank_point
    /\ magnification = 1
    /\ batch # <<>>
    /\ ~IsTraversal(batch, width)

\* C9: the body of the loop runs at most MAX_ITERATIONS + 1 times, and after
\* that many runs the next pass returns.
C9_TerminationBound ==
    /\ ev_steps <= MAX_ITERATIONS + 1
    /\ (ev_pc = "loop" /\ ev_steps = MAX_ITERATIONS + 1) => LoopPass(ev_loop, ev_c).returned

\* a call has returned black after MAX_ITERATIONS + 1 runs of the body
C9_Witness ==
    /\ ev_pc = "returned"
    /\ ev_steps = MAX_ITERATIONS + 1
    /\ ev_loop.color = BLACK

\* C10: when the function returns the colour of an escape, iterations /
\* MAX_ITERATIONS is within [0, 1].
C10_AlphaInUnitRange ==
    (ev_pc = "returned" /\ ~ev_loop.color.black) =>
        /\ 0 <= ev_loop.color.iterations
        /\ ev_loop.color.iterations <= MAX_ITERATIONS

\* the frame of the startup view: offset (0, 0), magnification 1.0
StartupFrame ==
    calculate_for_range(0, thread_count * per_thread_x, blank_point, 1, width, height)

NoKeyHeld == \A k \in MovementKeys : ~movement_data[k]

\* C11 as claimed: the frame computed next after a reset is the frame computed
\* at startup, entry by entry, whatever state the reset was pressed in.
C11_ResetReproducesStartupFrame ==
    (pc = "draw" /\ magnification = 1) => batch = StartupFrame

\* C11 as amended: the frame computed is the frame of the offset and the
\* magnification the viewer holds when the frame is computed, whatever came
\* before; after a reset it is the startup frame when no movement key is held
\* in the update that computes it.
C11_FrameOfViewAtRender ==
    pc = "draw" =>
        /\ IsTraversal(batch, width)
        /\ (magnification = 1 /\ NoKeyHeld) =>
              (view_offset = blank_point /\ batch = StartupFrame)

\* a reset was pressed in a zoomed view with no key held, and the frame
\* computed next is on display
C11_Witness ==
    /\ pc = "draw"
    /\ magnification = 1
    /\ NoKeyHeld
    /\ batch = StartupFrame

\* velocity[k] * dt if the key k is held, else nothing
HeldDisplacement(k, is_down, delta_time) ==
    IF is_down[k]
    THEN [x |-> Displacement(velocity(k).x, delta_time),
          y |-> Displacement(velocity(k).y, delta_time)]
    ELSE blank_point

\* the sum of velocity * dt over the held keys
SumOfHeld(is_down, delta_time) ==
    [x |-> HeldDisplacement("W", is_down, delta_time).x + HeldDisplacement("A", is_down, delta_time).x
           + HeldDisplacement("S", is_down, delta_time).x + HeldDisplacement("D", is_down, delta_time).x,
     y |-> HeldDisplacement("W", is_down, delta_time).y + HeldDisplacement("A", is_down, delta_time).y
           + HeldDisplacement("S", is_down, delta_time).y + HeldDisplacement("D", is_down, delta_time).y]

\* the orders in which the loop can visit the four keys
KeyOrders ==
    {o \in [1..4 -> MovementKeys] : \A i, j \in 1..4 : i # j => o[i] # o[j]}

\* the offset after the keys are visited in the order o, from its n-th key on
RECURSIVE PannedInOrder(_, _, _, _, _)
PannedInOrder(offset, o, n, is_down, delta_time) ==
    IF n > 4 THEN offset
    ELSE PannedInOrder([x |-> offset.x + HeldDisplacement(o[n], is_down, delta_time).x,
                        y |-> offset.y + HeldDisplacement(o[n], is_down, delta_time).y],
                       o, n + 1, is_down, delta_time)

\* the step moves the offset by the sum of the held keys' velocity * dt, as
\* every visiting order does, and leaves the magnification and the flags
TickEffect(delta_time) ==
    /\ view_offset'.x = view_offset.x + SumOfHeld(movement_data, delta_time).x
    /\ view_offset'.y = view_offset.y + SumOfHeld(movement_data, delta_time).y
    /\ \A o \in KeyOrders :
          PannedInOrder(view_offset, o, 1, movement_data, delta_time) = view_offset'
    /\ NoKeyHeld => view_offset' = view_offset
    /\ (movement_data["W"] /\ movement_data["S"]) => view_offset'.y = view_offset.y
    /\ (movement_data["A"] /\ movement_data["D"]) => view_offset'.x = view_offset.x
    /\ magnification' = magnification
    /\ movement_data' = movement_data

\* C12: a tick with elapsed time dt moves the offset by exactly the sum of
\* velocity * dt over the held keys, in whatever order the keys are visited;
\* opposite keys cancel, no key held leaves the offset, and the magnification
\* and the is_down flags are left as they were.
C12_TickAddsHeldVelocities ==
    [][\A d \in DeltaTimes : Tick(d) => TickEffect(d)]_vars

\* a tick with D, W and S held has moved the startup view one pixel to the
\* right and not vertically
C12_Witness ==
    /\ last_event = "Tick"
    /\ movement_data = [k \in MovementKeys |-> k # "A"]
    /\ magnification = 1
    /\ view_offset = [x |-> OffUnit, y |-> 0]

\* the step leaves every field of the viewer as it was
NoOp == ViewerUntouched

\* the step sets the is_down flag of the key k to v and leaves every other
\* flag and every other field of the viewer
OnlyFlag(k, v) ==
    /\ movement_data' = [movement_data EXCEPT ![k] = v]
    /\ UNCHANGED <<batch, has_parameters_changed, view_offset, magnification>>

\* C13: a key-down event flagged as repeated leaves the offset, the
\* magnification, every is_down flag and the dirty flag as they were, whatever
\* its key; a key-down that is not repeated, and a key-up, of a movement key
\* change the is_down flag of that key and nothing else.
C13_RepeatedIsNoOp ==
    /\ [][\A k \in Keycodes : key_down_event(k, TRUE, blank_point) => NoOp]_vars
    /\ [][\A k \in MovementKeys :
            key_down_event(k, FALSE, blank_point) => OnlyFlag(k, TRUE)]_vars
    /\ [][\A k \in MovementKeys : key_up_event(k) => OnlyFlag(k, FALSE)]_vars

\* a repeated key-down was handled in a zoomed view with a frame on display,
\* the key D held and the key W not
C13_Witness ==
    /\ last_event = "Repeated"
    /\ magnification = 2
    /\ batch # <<>>
    /\ ~has_parameters_changed
    /\ movement_data["D"]
    /\ ~movement_data["W"]

\* every worker dispatched so far was handed the offset and the magnification
\* the viewer holds now
SameSnapshot ==
    \A i \in 1..Len(threads) :
        threads[i].offset = view_offset /\ threads[i].mag = magnification

\* the step leaves the view and the key flags as they were
ViewKept ==
    /\ view_offset' = view_offset
    /\ magnification' = magnification
    /\ movement_data' = movement_data

\* the step is a worker's: a thread's record changes while the main thread
\* neither spawns nor joins
WorkerStepped ==
    /\ pc' = pc
    /\ Len(threads') = Len(threads)
    /\ threads' # threads

\* the step changes nothing but the stepping worker's own record
OnlyThreadsChanged ==
    UNCHANGED <<viewer_vars, config_vars, pc, accumulated_x, results, join_index>>

\* C14: from the dispatch of the first worker to the join of the last, every
\* worker holds the same offset and magnification, those of the viewer when the
\* frame computation began; no step changes the view or a key flag in between;
\* and a worker's step writes nothing but its own result.
C14_ConsistentSnapshot ==
    /\ [](pc \in {"spawn", "join"} => SameSnapshot)
    /\ [][(pc \in {"spawn", "join"}) => ViewKept]_vars
    /\ [][WorkerStepped => OnlyThreadsChanged]_vars

\* both workers of a frame of a zoomed, off-origin view are dispatched, one has
\* finished and is joined, with the previous frame on display
C14_Witness ==
    /\ pc = "join"
    /\ join_index = 2
    /\ threads[1].mag = 2
    /\ threads[2].mag = 2
    /\ threads[1].offset # blank_point
    /\ threads[2].offset = threads[1].offset
    /\ batch # <<>>

\* twice the larger of 1 and half of mag
TwiceFlooredHalf(mag) == IF mag > 2 THEN mag ELSE 2

\* on one axis, new = (old + cursor) / old_mag * new_mag - extent / 2, with
\* the division by old_mag multiplied out
RecentredAxis(new, old, cursor, extent, old_mag, new_mag) ==
    2 * old_mag * new = 2 * (old + cursor) * new_mag - extent * OffUnit * old_mag

\* the step halves the magnification down to the floor 1.0 and recentres on
\* the cursor m with the new magnification, floor or not
ZoomOutEffect(m) ==
    /\ 2 * magnification' = TwiceFlooredHalf(magnification)
    /\ RecentredAxis(view_offset'.x, view_offset.x, m.x, width, magnification, magnification')
    /\ RecentredAxis(view_offset'.y, view_offset.y, m.y, height, magnification, magnification')
    /\ (magnification = 1 /\ m # Centre) =>
          (magnification' = 1 /\ view_offset' # view_offset)

\* C15: a zoom-out sets the magnification to max(1.0, 0.5 * magnification) and
\* the offset to (old_offset + cursor) / old_mag * new_mag - extent / 2 on each
\* axis, also when the magnification was 1.0 and stays 1.0: there a cursor away
\* from the centre of the window changes the offset and not the magnification.
C15_ZoomOutRecentresAtFloor ==
    [][\A m \in MousePositions :
          key_down_event("Q", FALSE, m) => ZoomOutEffect(m)]_vars

\* before the first frame a zoom-out with the cursor at the top left corner has
\* moved the startup view and left the magnification 1.0
C15_Witness ==
    /\ last_event = "ZoomOut"
    /\ batch = <<>>
    /\ magnification = 1
    /\ view_offset = [x |-> -Centre.x, y |-> -Centre.y]

\* the integer square root of v, for v below (8 * FixScale)^2
ISqrt(v) == CHOOSE n \in 0..(8 * FixScale) : n * n <= v /\ v < (n + 1) * (n + 1)

\* the Euclidean norm sqrt(real^2 + imaginary^2) in the fixed-point arithmetic
\* of the model
magnitude(z) == ISqrt((FMul(z.real, z.real) + FMul(z.imaginary, z.imaginary)) * FixScale)

\* C16: what Complex::abs returns for the z of the loop is the Euclidean norm
\* sqrt(real^2 + imaginary^2), and the loop goes on exactly when that norm is
\* below MAX_STABLE.
C16_AbsIsEuclideanNorm ==
    ev_pc = "loop" =>
        /\ ComplexAbs(ev_loop.z) = magnitude(ev_loop.z)
        /\ Stable(ev_loop.z) <=> (magnitude(ev_loop.z) < MAX_STABLE * FixScale)

\* r is ((value / extent) / mag) * 4 - 2 rounded down to the fixed-point grid;
\* value is in offset units
IsIntoRange(r, value, extent, mag) ==
    LET d == OffUnit * extent * mag
    IN  /\ (r + 2 * FixScale) * d <= 4 * value * FixScale
        /\ 4 * value * FixScale < (r + 2 * FixScale + 1) * d

\* the coordinate the step maps the position p of an axis to
MappedAxis(r, p, offset_component, extent) ==
    /\ IsIntoRange(r, p * OffUnit + offset_component, extent, magnification)
    /\ (magnification = 1 /\ offset_component = 0 /\ p = 0) => r = -2 * FixScale
    /\ (magnification = 1 /\ offset_component = 0 /\ p = extent) => r = 2 * FixScale

\* C17: the mapper returns ((pixel + offset) / extent / magnification) * 4 - 2,
\* the offset added to the pixel before the division; at magnification 1 and
\* offset 0 it sends 0 to -2 and the extent to +2, for every extent.
C17_MapperFormula ==
    [][\A x \in 0..width, y \in 0..height :
          MapPosition(x, y) =>
              /\ MappedAxis(ev_c'.real, x, view_offset.x, width)
              /\ MappedAxis(ev_c'.imaginary, y, view_offset.y, height)]_vars

\* the far corner of a 3 x 2 window is mapped to 2 + 2i in the startup view
C17_Witness ==
    /\ ev_pc = "loop"
    /\ ev_steps = 0
    /\ width = 3
    /\ height = 2
    /\ view_offset = blank_point
    /\ magnification = 1
    /\ ev_c = ComplexNew(2 * FixScale, 2 * FixScale)

\* the batch is the frame of the offset and the magnification the viewer holds
BatchIsCurrent == IsTraversal(batch, thread_count * per_thread_x)

\* C18: when update has returned, and so at the draw that follows, the dirty
\* flag is false and the batch is the frame of the current offset and
\* magnification; more generally the batch is current whenever the flag is
\* false.  The flag is true until the first frame is computed, and a frame is
\* computed only with the flag set.
C18_CleanAndCurrentAtDraw ==
    /\ pc = "draw" => (~has_parameters_changed /\ BatchIsCurrent)
    /\ ~has_parameters_changed => BatchIsCurrent
    /\ batch = <<>> => has_parameters_changed
    /\ pc \in {"spawn", "join"} => has_parameters_changed

\* update has returned after computing the frame of a zoomed view off the
\* origin, with a key held
C18_Witness ==
    /\ pc = "draw"
    /\ ~has_parameters_changed
    /\ magnification = 2
    /\ view_offset # blank_point
    /\ movement_data["A"]
    /\ BatchIsCurrent
    /\ batch # StartupFrame

\* the plane point under the screen position m before the step is the point
\* at the centre of the window after it
CursorPointAtCentre(m) ==
    /\ mapper(Centre.x, view_offset'.x, width, magnification')
          = mapper(m.x, view_offset.x, width, magnification)
    /\ mapper(Centre.y, view_offset'.y, height, magnification')
          = mapper(m.y, view_offset.y, height, magnification)

\* C19: after a zoom-in or a zoom-out with the cursor at m, the plane point
\* that was under the cursor is the point mapped to the centre of the window,
\* on each axis.
C19_CursorPointMovesToCentre ==
    [][\A m \in MousePositions :
          (key_down_event("E", FALSE, m) \/ key_down_event("Q", FALSE, m))
              => CursorPointAtCentre(m)]_vars

\* with a frame on display, a zoom-in with the cursor at the top left corner
\* has brought the corner of the startup view to the centre
C19_Witness ==
    /\ last_event = "ZoomIn"
    /\ batch # <<>>
    /\ magnification = 2
    /\ view_offset = Recentred(blank_point, blank_point, 1, 2, width, height)

====
